---- MODULE Spec2Model ----
(***************************************************************************)
(* Blueprint generation-and-revision engine of floor-planner-2d            *)
(* (src/main.py): the shared GeminiBlueprintGenerator object, the          *)
(* design_storage dictionary and the FastAPI handlers that drive them.     *)
(*                                                                         *)
(* Python objects are modelled with their identity: every DesignVersion    *)
(* dict lives in heap   and lists hold references to it, because           *)
(* list.copy() is shallow and generator.design_history may be the very     *)
(* list object that design_storage holds.  Timestamps are left out: no     *)
(* decision of the program reads them.                                     *)
(*                                                                         *)
(* Text is a sequence of tokens.  "FENCE" is a code fence (three           *)
(* backquotes), "json" the fence                                           *)
(* tag, " " any whitespace, "{" and "}" enclose one token standing for the *)
(* body of a JSON object, "[" "]" is a JSON array, "5" a digit.            *)
(***************************************************************************)
EXTENDS Integers, Sequences, FiniteSets, TLC

\* ------------------------------------------------------------------ bounds
\* The DesignVersion dicts a run creates.
MaxEntries == 3
\* The longest text the external service returns in the runs of the gateway.
MaxTextLen == 2
\* The largest coordinate of a room position in the runs of normalisation.
MaxCoord == 8
\* The longest text given to the extractor, the samples apart.
MaxExtractLen == 5

\* --------------------------------------------------------------- constants
BUILDING_TYPES ==
  { "residential_house", "apartment_complex", "office_building", "retail_store",
    "restaurant", "warehouse", "school", "hospital", "clinic", "hotel",
    "shopping_mall", "gym_fitness_center", "library", "community_center",
    "industrial_facility" }

ROOM_DIRECTIONS ==
  { "North", "South", "East", "West", "Northeast", "Northwest", "Southeast",
    "Southwest", "Center" }

\* The document of _get_fallback_response, as json.loads reads it.  The
\* parts no code looks into (building_info, dimensions, design_constraints,
\* metadata) are written as one value each.
FallbackDoc ==
  [ building_info |-> "residential_house 150.0 floors=2 family parking garden standard",
    floor_plans |->
      << [ floor_number |-> 1, area |-> "75.0",
           rooms |->
             << [ name |-> "Living Room", type |-> "living",
                  dimensions |-> "6.0 x 8.0 = 48.0",
                  position |-> [x |-> 0, y |-> 0],
                  direction |-> "Center",
                  features |-> <<"natural_light", "main_entrance">>,
                  color |-> "#e3f2fd" ],
                [ name |-> "Kitchen", type |-> "kitchen",
                  dimensions |-> "4.0 x 5.0 = 20.0",
                  position |-> [x |-> 8, y |-> 0],
                  direction |-> "East",
                  features |-> <<"ventilation", "plumbing">>,
                  color |-> "#e8f5e8" ] >> ],
         [ floor_number |-> 2, area |-> "75.0",
           rooms |->
             << [ name |-> "Master Bedroom", type |-> "bedroom",
                  dimensions |-> "5.0 x 6.0 = 30.0",
                  position |-> [x |-> 0, y |-> 0],
                  direction |-> "North",
                  features |-> <<"natural_light", "ensuite">>,
                  color |-> "#f3e5f5" ] >> ] >>,
    design_constraints |-> "local_residential_code bedroom>=12/3 bathroom>=6/2",
    metadata |-> "2025-01-01T00:00:00 1.0 Gemini Blueprint System" ]

\* A document the model may return: one floor, and rooms that leave out the
\* direction, the features or the color, so that normalisation has work to do.
ModelDocA ==
  [ building_info |-> "hospital floors=1",
    floor_plans |->
      << [ floor_number |-> 1,
           rooms |->
             << [ name |-> "Ward", type |-> "ward",
                  position |-> [x |-> -8, y |-> 3] ],
                [ name |-> "Lab", type |-> "atrium",
                  direction |-> "South", features |-> <<"sink">> ] >> ] >> ]

\* A document without a floor_plans key.
ModelDocB == [ building_info |-> "school floors=3" ]

\* A document with three backquotes inside one of its strings.
ModelDocF == [ building_info |-> "FENCE" ]

\* The JSON object a body token stands for; the body of ModelDocF is the
\* three backquotes its string holds.
DocBodies == {"fb", "a", "b", "FENCE"}

DocOfBody(b) ==
  CASE b = "fb" -> FallbackDoc
    [] b = "a" -> ModelDocA
    [] b = "b" -> ModelDocB
    [] b = "FENCE" -> ModelDocF

\* The text of _get_fallback_response: a newline, the object, a newline.
get_fallback_response == <<" ", "{", "fb", "}", " ">>

\* ------------------------------------------------------- Python helpers
Min(a, b) == IF a < b THEN a ELSE b
Max(a, b) == IF a > b THEN a ELSE b
Last(s) == s[Len(s)]

\* s[start:end] of Python, positions counted from 0, a negative index
\* counted from the end.
Slice(s, start, end) ==
  LET norm(i) == IF i < 0 THEN Max(Len(s) + i, 0) ELSE Min(i, Len(s))
  IN  SubSeq(s, norm(start) + 1, norm(end))

MatchesAt(s, pat, i) ==
  /\ i + Len(pat) <= Len(s)
  /\ \A k \in 1..Len(pat) : s[i + k] = pat[k]

\* s.find(pat, start): the least position from start where pat occurs, or -1.
Find(s, pat, start) ==
  LET hits == { i \in start..Len(s) : MatchesAt(s, pat, i) }
  IN  IF hits = {} THEN -1 ELSE CHOOSE i \in hits : \A j \in hits : i <= j

\* pat in s
Contains(s, pat) == Find(s, pat, 0) # -1

RECURSIVE LStrip(_)
LStrip(s) == IF s # <<>> /\ Head(s) = " " THEN LStrip(Tail(s)) ELSE s

RECURSIVE RStrip(_)
RStrip(s) ==
  IF s # <<>> /\ Last(s) = " " THEN RStrip(SubSeq(s, 1, Len(s) - 1)) ELSE s

\* str.strip()
Strip(s) == RStrip(LStrip(s))

\* json.loads: the value read, or the JSONDecodeError.
\* (json.loads skips the whitespace around the value.)
JsonLoads(text) ==
  LET s == Strip(text)
  IN  IF Len(s) = 3 /\ s[1] = "{" /\ s[3] = "}" /\ s[2] \in DocBodies
        THEN [kind |-> "object", val |-> DocOfBody(s[2])]
      ELSE IF s = <<"[", "]">>
        THEN [kind |-> "array", val |-> [items |-> <<>>]]
      ELSE IF s # <<>> /\ \A i \in 1..Len(s) : s[i] = "5"
        THEN [kind |-> "number", val |-> [digits |-> Len(s)]]
      ELSE [kind |-> "JSONDecodeError", val |-> [msg |-> "JSONDecodeError"]]

FenceJson == <<"FENCE", "json">>
Fence == <<"FENCE">>

\* json_str of _parse_blueprint_response: the text handed to json.loads.
json_str(response) ==
  IF Contains(response, FenceJson)
    THEN LET start == Find(response, FenceJson, 0) + Len(FenceJson)
             end == Find(response, Fence, start)
         IN  Strip(Slice(response, start, end))
  ELSE IF Contains(response, Fence)
    THEN LET start == Find(response, Fence, 0) + Len(Fence)
             end == Find(response, Fence, start)
         IN  Strip(Slice(response, start, end))
  ELSE Strip(response)

\* _parse_blueprint_response
parse_blueprint_response(response) ==
  LET parsed == JsonLoads(json_str(response))
  IN  IF parsed.kind = "JSONDecodeError"
        THEN JsonLoads(get_fallback_response)
        ELSE parsed

\* sep.join(parts), a text being the sequence of its pieces
RECURSIVE Join(_, _)
Join(parts, sep) ==
  IF Len(parts) <= 1 THEN parts
  ELSE <<Head(parts), sep>> \o Join(Tail(parts), sep)

\* dict.get(key, default)
Get(d, key, default) == IF key \in DOMAIN d THEN d[key] ELSE default

\* d[key] = value
Put(d, key, value) ==
  [k \in DOMAIN d \cup {key} |-> IF k = key THEN value ELSE d[k]]

\* calculate_room_direction as it would be with the single-axis tests made
\* before the diagonal ones.
calculate_room_direction_axis_first(room) ==
  LET pos == Get(room, "position", [x |-> 0, y |-> 0])
      x == Get(pos, "x", 0)
      y == Get(pos, "y", 0)
  IN  IF x < -2 THEN "West"
      ELSE IF x > 2 THEN "East"
      ELSE IF y > 2 THEN "North"
      ELSE IF y < -2 THEN "South"
      ELSE IF x < -5 /\ y > 5 THEN "Northwest"
      ELSE IF x > 5 /\ y > 5 THEN "Northeast"
      ELSE IF x < -5 /\ y < -5 THEN "Southwest"
      ELSE IF x > 5 /\ y < -5 THEN "Southeast"
      ELSE "Center"

\* _calculate_room_direction
calculate_room_direction(room) ==
  LET pos == Get(room, "position", [x |-> 0, y |-> 0])
      x == Get(pos, "x", 0)
      y == Get(pos, "y", 0)
  IN  IF x < -5 /\ y > 5 THEN "Northwest"
      ELSE IF x > 5 /\ y > 5 THEN "Northeast"
      ELSE IF x < -5 /\ y < -5 THEN "Southwest"
      ELSE IF x > 5 /\ y < -5 THEN "Southeast"
      ELSE IF x < -2 THEN "West"
      ELSE IF x > 2 THEN "East"
      ELSE IF y > 2 THEN "North"
      ELSE IF y < -2 THEN "South"
      ELSE "Center"

color_map ==
  [ living |-> "#e3f2fd", bedroom |-> "#f3e5f5", kitchen |-> "#e8f5e8",
    bathroom |-> "#fff3e0", office |-> "#e1f5fe", dining |-> "#fce4ec",
    storage |-> "#f5f5f5", hallway |-> "#f9f9f9", lobby |-> "#e0f2f1",
    conference |-> "#fff8e1", medical |-> "#e8eaf6", lab |-> "#f1f8e9",
    ward |-> "#fafafa" ]

\* _get_default_room_color
get_default_room_color(room_type) == Get(color_map, room_type, "#f5f5f5")

\* FixRoom as it would be if the direction were computed for every room,
\* present or not.
FixRoomRecomputes(room) ==
  LET r1 == Put(room, "direction", calculate_room_direction(room))
      r2 == IF "features" \notin DOMAIN r1 THEN Put(r1, "features", <<>>) ELSE r1
  IN  IF "color" \notin DOMAIN r2
        THEN Put(r2, "color", get_default_room_color(Get(r2, "type", "general")))
        ELSE r2

\* FixRoom as it would be if it emptied the features of every room.
FixRoomResetsFeatures(room) ==
  LET r1 == IF "direction" \notin DOMAIN room
              THEN Put(room, "direction", calculate_room_direction(room))
              ELSE room
      r2 == Put(r1, "features", <<>>)
  IN  IF "color" \notin DOMAIN r2
        THEN Put(r2, "color", get_default_room_color(Get(r2, "type", "general")))
        ELSE r2

\* The body of the loop over the rooms in _validate_and_fix_blueprint.
FixRoom(room) ==
  LET r1 == IF "direction" \notin DOMAIN room
              THEN Put(room, "direction", calculate_room_direction(room))
              ELSE room
      r2 == IF "features" \notin DOMAIN r1 THEN Put(r1, "features", <<>>) ELSE r1
      r3 == IF "color" \notin DOMAIN r2
              THEN Put(r2, "color",
                       get_default_room_color(Get(r2, "type", "general")))
              ELSE r2
  IN  r3

FixFloorPlan(floor_plan) ==
  IF "rooms" \in DOMAIN floor_plan
    THEN [floor_plan EXCEPT
            !.rooms = [i \in 1..Len(floor_plan.rooms) |-> FixRoom(floor_plan.rooms[i])]]
    ELSE floor_plan

\* _validate_and_fix_blueprint on a dict (the requirements argument is unused).
validate_and_fix_blueprint(blueprint) ==
  IF "floor_plans" \in DOMAIN blueprint
    THEN [blueprint EXCEPT
            !.floor_plans =
               [i \in 1..Len(blueprint.floor_plans) |->
                  FixFloorPlan(blueprint.floor_plans[i])]]
    ELSE blueprint

\* ------------------------------------------------------------ the gateway
\* What the external service does with one request: requests.post raises
\* (raised), or answers with a status code; a 200 answer carries candidates
\* or none; the first candidate has content.parts[0].text (well_formed) or
\* lacks it.
Outcome(raised, status_code, has_candidates, well_formed, text) ==
  [ raised |-> raised, status_code |-> status_code,
    has_candidates |-> has_candidates, well_formed |-> well_formed,
    text |-> text ]

\* call_gemini_api as it would be without the test of the status code.
call_gemini_api_any_status(o) ==
  IF o.raised THEN get_fallback_response
  ELSE IF o.has_candidates
    THEN IF o.well_formed THEN o.text ELSE get_fallback_response
    ELSE get_fallback_response

\* _call_gemini_api: every exception of the try block ends in the fallback.
call_gemini_api(o) ==
  IF o.raised THEN get_fallback_response
  ELSE IF o.status_code = 200
    THEN IF o.has_candidates
           THEN IF o.well_formed THEN o.text ELSE get_fallback_response
           ELSE get_fallback_response
    ELSE get_fallback_response

\* --------------------------------------------------------------- the state
VARIABLES
  heap,            \* the DesignVersion dicts ever created; a reference is an index
  design_storage,  \* design_storage: session id -> list of references
  gen_ref,         \* which list generator.design_history is: Own, or the
                   \* list stored under that session id
  gen_own,         \* generator.design_history when it is a list of its own
  current_floor,   \* generator.current_floor
  response         \* the last request and what was answered

vars == <<heap, design_storage, gen_ref, gen_own, current_floor, response>>

Own == 0
\* The session identifiers: the ones uuid4 hands out and requests name.
SessionIds == {1, 2}
NoBlueprint == [none |-> TRUE]

\* The list generator.design_history refers to.
GenList == IF gen_ref = Own THEN gen_own ELSE design_storage[gen_ref]

\* A history with its entries read through the references.
Deref(hp, hist) == [i \in 1..Len(hist) |-> hp[hist[i]]]

\* --------------------------------------------------- GeminiBlueprintGenerator
\* Each method is given the list design_history refers to (hist), the heap
\* and current_floor, and yields what it raised ("" for a return), the list,
\* heap and current_floor it leaves, the blueprint it returns and the calls
\* it made to the gateway.
Raise(exc, hist, hp, cf, calls) ==
  [ raised |-> exc, hist |-> hist, heap |-> hp, current_floor |-> cf,
    blueprint |-> NoBlueprint, gateway |-> calls ]

Return(bp, hist, hp, cf, calls) ==
  [ raised |-> "", hist |-> hist, heap |-> hp, current_floor |-> cf,
    blueprint |-> bp, gateway |-> calls ]

Call(prompt, o) == [prompt |-> prompt, outcome |-> o, raw |-> call_gemini_api(o)]

\* The calls a method would make if it called the gateway again after a call
\* that ended in the fallback text.
CallsWithRetry(prompt, o) ==
  IF call_gemini_api(o) = get_fallback_response
    THEN <<Call(prompt, o), Call(prompt, o)>>
    ELSE <<Call(prompt, o)>>

\* AppendEntry as it would be if the new dict never reached the list.
AppendEntryDropped(hist, hp, entry) ==
  [hist |-> hist, heap |-> Append(hp, entry)]

\* design_history.append({...})
AppendEntry(hist, hp, entry) ==
  [hist |-> Append(hist, Len(hp) + 1), heap |-> Append(hp, entry)]

\* _generate_initial_prompt divides total_area by floors.
generate_initial_blueprint(hist, hp, cf, requirements, o) ==
  IF requirements.floors = 0
    THEN Raise("ZeroDivisionError", hist, hp, cf, <<>>)
  ELSE
    LET call == Call([kind |-> "initial", requirements |-> requirements], o)
        parsed == parse_blueprint_response(call.raw)
    IN  IF parsed.kind # "object"
          THEN Raise("AttributeError", hist, hp, cf, <<call>>)
        ELSE
          LET blueprint == validate_and_fix_blueprint(parsed.val)
              app == AppendEntry(hist, hp,
                       [ version |-> 1, blueprint |-> blueprint,
                         feedback |-> <<"Initial generation">>,
                         changes_made |-> <<"Initial creation">>,
                         current_floor |-> 1 ])
          IN  Return(blueprint, app.hist, app.heap, cf, <<call>>)

\* iterate_design as it would be with one retry of a failed call.
iterate_design_retries(hist, hp, cf, user_feedback, o) ==
  IF hist = <<>>
    THEN Raise("No existing design to iterate on", hist, hp, cf, <<>>)
  ELSE
    LET current_design == hp[Last(hist)].blueprint
        calls == CallsWithRetry([ kind |-> "iteration",
                                  current_blueprint |-> current_design,
                                  user_feedback |-> user_feedback ], o)
        parsed == parse_blueprint_response(Last(calls).raw)
    IN  IF parsed.kind # "object"
          THEN Raise("AttributeError", hist, hp, cf, calls)
        ELSE
          LET updated_blueprint == validate_and_fix_blueprint(parsed.val)
              app == AppendEntry(hist, hp,
                       [ version |-> Len(hist) + 1, blueprint |-> updated_blueprint,
                         feedback |-> user_feedback,
                         changes_made |-> <<"User feedback integration">>,
                         current_floor |-> cf ])
          IN  Return(updated_blueprint, app.hist, app.heap, cf, calls)

iterate_design(hist, hp, cf, user_feedback, o) ==
  IF hist = <<>>
    THEN Raise("No existing design to iterate on", hist, hp, cf, <<>>)
  ELSE
    LET current_design == hp[Last(hist)].blueprint
        call == Call([ kind |-> "iteration", current_blueprint |-> current_design,
                       user_feedback |-> user_feedback ], o)
        parsed == parse_blueprint_response(call.raw)
    IN  IF parsed.kind # "object"
          THEN Raise("AttributeError", hist, hp, cf, <<call>>)
        ELSE
          LET updated_blueprint == validate_and_fix_blueprint(parsed.val)
              app == AppendEntry(hist, hp,
                       [ version |-> Len(hist) + 1, blueprint |-> updated_blueprint,
                         feedback |-> user_feedback,
                         changes_made |-> <<"User feedback integration">>,
                         current_floor |-> cf ])
          IN  Return(updated_blueprint, app.hist, app.heap, cf, <<call>>)

\* update_floor_view as it would be if it wrote the floor into every entry.
update_floor_view_every_entry(hist, hp, cf, floor_number) ==
  IF hist = <<>>
    THEN Raise("No existing design to view", hist, hp, cf, <<>>)
  ELSE
    Return(hp[Last(hist)].blueprint, hist,
           [i \in 1..Len(hp) |->
              IF \E k \in 1..Len(hist) : hist[k] = i
                THEN [hp[i] EXCEPT !.current_floor = floor_number]
                ELSE hp[i]],
           floor_number, <<>>)

\* update_floor_view as it would be if it left the history entry alone.
update_floor_view_keeps_entry(hist, hp, cf, floor_number) ==
  IF hist = <<>>
    THEN Raise("No existing design to view", hist, hp, cf, <<>>)
  ELSE Return(hp[Last(hist)].blueprint, hist, hp, floor_number, <<>>)

\* update_floor_view as it would be if it set current_floor before the test
\* of the history.
update_floor_view_sets_first(hist, hp, cf, floor_number) ==
  IF hist = <<>>
    THEN Raise("No existing design to view", hist, hp, floor_number, <<>>)
  ELSE
    Return(hp[Last(hist)].blueprint, hist,
           [hp EXCEPT ![Last(hist)].current_floor = floor_number],
           floor_number, <<>>)

update_floor_view(hist, hp, cf, floor_number) ==
  IF hist = <<>>
    THEN Raise("No existing design to view", hist, hp, cf, <<>>)
  ELSE
    LET current_blueprint == hp[Last(hist)].blueprint
    IN  Return(current_blueprint, hist,
               [hp EXCEPT ![Last(hist)].current_floor = floor_number],
               floor_number, <<>>)

optimize_design(hist, hp, cf, optimization_goals, o) ==
  IF hist = <<>>
    THEN Raise("No existing design to optimize", hist, hp, cf, <<>>)
  ELSE
    LET current_design == hp[Last(hist)].blueprint
        call == Call([ kind |-> "optimization", current_blueprint |-> current_design,
                       optimization_goals |-> optimization_goals ], o)
        parsed == parse_blueprint_response(call.raw)
    IN  IF parsed.kind # "object"
          THEN Raise("AttributeError", hist, hp, cf, <<call>>)
        ELSE
          LET optimized_blueprint == validate_and_fix_blueprint(parsed.val)
              app == AppendEntry(hist, hp,
                       [ version |-> Len(hist) + 1, blueprint |-> optimized_blueprint,
                         feedback |-> <<"Optimization for: ">>
                                        \o Join(optimization_goals, ", "),
                         changes_made |-> <<"Design optimization">>,
                         current_floor |-> cf ])
          IN  Return(optimized_blueprint, app.hist, app.heap, cf, <<call>>)

\* ------------------------------------------------------------- the inputs
\* What the external service answers in the runs of the service: it is
\* unreachable, it returns a JSON object, it returns a JSON array.
ErrorBody == <<"{", "a", "}">>

ApiOutcomes ==
  { Outcome(TRUE, 0, FALSE, FALSE, ErrorBody),
    Outcome(FALSE, 200, TRUE, TRUE, <<"{", "a", "}">>),
    Outcome(FALSE, 200, TRUE, TRUE, <<"[", "]">>) }

RequirementsSet ==
  { [building_type |-> "residential_house", total_area |-> "150.0", floors |-> 3],
    [building_type |-> "hospital", total_area |-> "90.0", floors |-> 1],
    [building_type |-> "residential_house", total_area |-> "150.0", floors |-> 0],
    [building_type |-> "castle", total_area |-> "150.0", floors |-> 3] }

Feedbacks == { <<"bigger kitchen">> }
GoalLists == { <<"daylight", "cost">> }
FloorNumbers == {1, 2}

\* ------------------------------------------------------------ the handlers
\* raise HTTPException(status_code=..., detail=...)
HTTPException(status_code, detail) ==
  [status_code |-> status_code, detail |-> detail]

\* except Exception as e: raise HTTPException(status_code=500, detail=str(e))
\* (an HTTPException raised inside the try block is an Exception too).
ExceptException(detail) == HTTPException(500, detail)

Answer(op, request, http, session_id, blueprint, version, calls, body) ==
  [ op |-> op, request |-> request, status_code |-> http.status_code,
    detail |-> http.detail, session_id |-> session_id, blueprint |-> blueprint,
    version |-> version, gateway |-> calls, body |-> body ]

Rejected(op, request, http, session_id, calls) ==
  Answer(op, request, http, session_id, NoBlueprint, 0, calls, <<>>)

Ok(detail) == HTTPException(200, detail)

\* str(uuid.uuid4()): an identifier no session has yet.
FreshSessionId ==
  CHOOSE s \in SessionIds \ DOMAIN design_storage :
    \A t \in SessionIds \ DOMAIN design_storage : s <= t

\* design_storage with the list under ref (when it is a stored list) as the
\* generator's method left it.
StorageAfter(ref, hist) ==
  IF ref = Own THEN design_storage ELSE [design_storage EXCEPT ![ref] = hist]

\* POST /api/generate
generate_blueprint(requirements, o) ==
  /\ Len(heap) < MaxEntries
  /\ SessionIds \ DOMAIN design_storage # {}
  /\ IF requirements.building_type \notin BUILDING_TYPES
       THEN /\ response' = Rejected("generate", requirements,
                             ExceptException(HTTPException(400, "Invalid building type").detail),
                             0, <<>>)
            /\ UNCHANGED <<heap, design_storage, gen_ref, gen_own, current_floor>>
       ELSE LET r == generate_initial_blueprint(GenList, heap, current_floor,
                                                requirements, o)
                session_id == FreshSessionId
            IN  IF r.raised # ""
                  THEN /\ response' = Rejected("generate", requirements,
                                        ExceptException(r.raised), 0, r.gateway)
                       /\ UNCHANGED <<heap, design_storage, gen_ref, gen_own,
                                      current_floor>>
                  ELSE /\ heap' = r.heap
                       /\ gen_own' = IF gen_ref = Own THEN r.hist ELSE gen_own
                       /\ design_storage' =
                            [ s \in DOMAIN design_storage \cup {session_id} |->
                                IF s = session_id THEN r.hist
                                ELSE StorageAfter(gen_ref, r.hist)[s] ]
                       /\ response' = Answer("generate", requirements,
                                        Ok("Blueprint generated successfully"),
                                        session_id, r.blueprint, 1, r.gateway, <<>>)
                       /\ UNCHANGED <<gen_ref, current_floor>>

\* The three handlers that restore the generator from a stored history, run
\* one method on it and store a copy of the list back.
Restored(op, request, session_id, r, message) ==
  IF r.raised # ""
    THEN /\ response' = Rejected(op, request, ExceptException(r.raised),
                                 session_id, r.gateway)
         /\ gen_ref' = session_id
         /\ gen_own' = <<>>
         /\ UNCHANGED <<heap, design_storage, current_floor>>
    ELSE /\ heap' = r.heap
         /\ design_storage' = [design_storage EXCEPT ![session_id] = r.hist]
         /\ gen_ref' = Own
         /\ gen_own' = r.hist
         /\ current_floor' = r.current_floor
         /\ response' = Answer(op, request, Ok(message), session_id,
                               r.blueprint, Len(r.hist), r.gateway, <<>>)

SessionNotFound(op, request, session_id) ==
  /\ response' = Rejected(op, request,
                   ExceptException(HTTPException(404, "Session not found").detail),
                   session_id, <<>>)
  /\ UNCHANGED <<heap, design_storage, gen_ref, gen_own, current_floor>>

\* POST /api/iterate
iterate_blueprint(session_id, feedback, o) ==
  /\ Len(heap) < MaxEntries
  /\ IF session_id \notin DOMAIN design_storage
       THEN SessionNotFound("iterate", feedback, session_id)
       ELSE Restored("iterate", feedback, session_id,
                     iterate_design(design_storage[session_id], heap,
                                    current_floor, feedback, o),
                     "Blueprint updated successfully based on feedback")

\* POST /api/update-floor
update_floor_view_endpoint(session_id, floor_number) ==
  IF session_id \notin DOMAIN design_storage
    THEN SessionNotFound("update_floor", floor_number, session_id)
    ELSE Restored("update_floor", floor_number, session_id,
                  update_floor_view(design_storage[session_id], heap,
                                    current_floor, floor_number),
                  "Floor view updated")

\* POST /api/optimize
optimize_blueprint(session_id, goals, o) ==
  /\ Len(heap) < MaxEntries
  /\ IF session_id \notin DOMAIN design_storage
       THEN SessionNotFound("optimize", goals, session_id)
       ELSE Restored("optimize", goals, session_id,
                     optimize_design(design_storage[session_id], heap,
                                     current_floor, goals, o),
                     "Blueprint optimized successfully")

\* GET /api/history/{session_id}
get_design_history(session_id) ==
  /\ response' =
       IF session_id \notin DOMAIN design_storage
         THEN Rejected("history", session_id,
                       HTTPException(404, "Session not found"), session_id, <<>>)
         ELSE Answer("history", session_id, Ok(""), session_id, NoBlueprint, 0,
                     <<>>, design_storage[session_id])
  /\ UNCHANGED <<heap, design_storage, gen_ref, gen_own, current_floor>>

\* The floor GET /api/current-floor reports for a stored history.
ReportedFloor(hp, history) ==
  IF history # <<>> THEN Get(hp[Last(history)], "current_floor", 1) ELSE 1

\* GET /api/current-floor/{session_id}
get_current_floor(session_id) ==
  /\ response' =
       IF session_id \notin DOMAIN design_storage
         THEN Rejected("current_floor", session_id,
                       HTTPException(404, "Session not found"), session_id, <<>>)
         ELSE Answer("current_floor", session_id, Ok(""), session_id, NoBlueprint,
                     0, <<>>, <<ReportedFloor(heap, design_storage[session_id])>>)
  /\ UNCHANGED <<heap, design_storage, gen_ref, gen_own, current_floor>>

\* ------------------------------------------------------ the specification
NoResponse ==
  Answer("none", <<>>, Ok(""), 0, NoBlueprint, 0, <<>>, <<>>)

Init ==
  /\ heap = <<>>
  /\ design_storage = <<>>
  /\ gen_ref = Own
  /\ gen_own = <<>>
  /\ current_floor = 1
  /\ response = NoResponse

Next ==
  \/ \E requirements \in RequirementsSet, o \in ApiOutcomes :
       generate_blueprint(requirements, o)
  \/ \E session_id \in SessionIds, feedback \in Feedbacks, o \in ApiOutcomes :
       iterate_blueprint(session_id, feedback, o)
  \/ \E session_id \in SessionIds, floor_number \in FloorNumbers :
       update_floor_view_endpoint(session_id, floor_number)
  \/ \E session_id \in SessionIds, goals \in GoalLists, o \in ApiOutcomes :
       optimize_blueprint(session_id, goals, o)
  \/ \E session_id \in SessionIds : get_design_history(session_id)
  \/ \E session_id \in SessionIds : get_current_floor(session_id)

Spec == Init /\ [][Next]_vars

\* ------------------------------------- the generator object used directly
\* The methods of one GeminiBlueprintGenerator called on the object itself,
\* as a library user or a unit test does, with no handler restoring
\* design_history first.
Direct(op, request, r) ==
  /\ heap' = r.heap
  /\ gen_own' = r.hist
  /\ current_floor' = r.current_floor
  /\ response' = Answer(op, request, HTTPException(0, r.raised), 0,
                        r.blueprint, Len(r.hist), r.gateway, <<>>)
  /\ UNCHANGED <<design_storage, gen_ref>>

direct_generate_initial_blueprint(requirements, o) ==
  /\ Len(heap) < MaxEntries
  /\ Direct("generate_initial_blueprint", requirements,
            generate_initial_blueprint(gen_own, heap, current_floor,
                                       requirements, o))

direct_iterate_design(user_feedback, o) ==
  /\ Len(heap) < MaxEntries
  /\ Direct("iterate_design", user_feedback,
            iterate_design(gen_own, heap, current_floor, user_feedback, o))

direct_update_floor_view(floor_number) ==
  Direct("update_floor_view", floor_number,
         update_floor_view(gen_own, heap, current_floor, floor_number))

direct_optimize_design(optimization_goals, o) ==
  /\ Len(heap) < MaxEntries
  /\ Direct("optimize_design", optimization_goals,
            optimize_design(gen_own, heap, current_floor, optimization_goals, o))

NextCore ==
  \/ \E requirements \in RequirementsSet, o \in ApiOutcomes :
       direct_generate_initial_blueprint(requirements, o)
  \/ \E user_feedback \in Feedbacks, o \in ApiOutcomes :
       direct_iterate_design(user_feedback, o)
  \/ \E floor_number \in FloorNumbers : direct_update_floor_view(floor_number)
  \/ \E optimization_goals \in GoalLists, o \in ApiOutcomes :
       direct_optimize_design(optimization_goals, o)

SpecCore == Init /\ [][NextCore]_vars

\* ------------------------------------------------------ the gateway alone
Tokens == {"FENCE", "json", " ", "{", "}", "a", "["}

TextsUpTo(n) == UNION { [1..k -> Tokens] : k \in 0..n }

\* Every way the external call can end.
GatewayOutcomes ==
  { Outcome(raised, status_code, has_candidates, well_formed, text) :
      raised \in BOOLEAN, status_code \in {200, 404, 500},
      has_candidates \in BOOLEAN, well_formed \in BOOLEAN,
      text \in TextsUpTo(MaxTextLen) \cup {get_fallback_response} }

\* One call of _call_gemini_api: the request is pending with what the
\* external service will do, and invoke answers it.
InitGateway ==
  /\ heap = <<>>
  /\ design_storage = <<>>
  /\ gen_ref = Own
  /\ gen_own = <<>>
  /\ current_floor = 1
  /\ \E o \in GatewayOutcomes :
       response = Answer("pending", o, Ok(""), 0, NoBlueprint, 0, <<>>, <<>>)

invoke ==
  /\ response.op = "pending"
  /\ response' = Answer("call_gemini_api", response.request, Ok(""), 0,
                        NoBlueprint, 0,
                        <<Call([kind |-> "initial"], response.request)>>, <<>>)
  /\ UNCHANGED <<heap, design_storage, gen_ref, gen_own, current_floor>>

NextGateway == invoke

SpecGateway == InitGateway /\ [][NextGateway]_vars

\* --------------------------------------------------- normalisation alone
\* The coordinates a room position is drawn from, -MaxCoord..MaxCoord.
Coords == -MaxCoord..MaxCoord

\* S, and every record of S with key set to one of values.
Extend(S, key, values) == S \cup { Put(r, key, v) : r \in S, v \in values }

\* The colours written as "#" and six hexadecimal digits.
HexColors ==
  { color_map[k] : k \in DOMAIN color_map } \cup { "#f5f5f5", "#abcdef" }

\* The rooms json.loads may hand to _validate_and_fix_blueprint: every key
\* the loop reads is there or not, with a value the model chose.
Rooms ==
  LET bare == { [name |-> "Room"] }
      placed == bare
                  \cup { [name |-> "Room", position |-> [x |-> a, y |-> b]] :
                           a \in Coords, b \in Coords }
                  \cup { [name |-> "Room", position |-> [x |-> a]] : a \in Coords }
                  \cup { [name |-> "Room", position |-> [y |-> b]] : b \in Coords }
      directed == Extend(placed, "direction", {"South", "Upstairs"})
      featured == Extend(directed, "features", { <<"sink">> })
      coloured == Extend(featured, "color", {"#abcdef", "red"})
  IN  Extend(coloured, "type", {"ward", "atrium"})

RoomDoc(room) ==
  [ building_info |-> "clinic floors=1",
    floor_plans |-> << [floor_number |-> 1, rooms |-> <<room>>] >> ]

\* A floor plan without a rooms key.
ModelDocC ==
  [ building_info |-> "clinic floors=1",
    floor_plans |-> << [floor_number |-> 1] >> ]

NormalizeInputs ==
  { RoomDoc(room) : room \in Rooms }
    \cup { ModelDocA, ModelDocB, ModelDocC, FallbackDoc }

\* One call of _validate_and_fix_blueprint on a parsed document.
InitNormalize ==
  /\ heap = <<>>
  /\ design_storage = <<>>
  /\ gen_ref = Own
  /\ gen_own = <<>>
  /\ current_floor = 1
  /\ \E doc \in NormalizeInputs :
       response = Answer("pending", doc, Ok(""), 0, NoBlueprint, 0, <<>>, <<>>)

normalize ==
  /\ response.op = "pending"
  /\ response' = Answer("validate_and_fix_blueprint", response.request, Ok(""), 0,
                        validate_and_fix_blueprint(response.request), 0,
                        <<>>, <<>>)
  /\ UNCHANGED <<heap, design_storage, gen_ref, gen_own, current_floor>>

NextNormalize == normalize

SpecNormalize == InitNormalize /\ [][NextNormalize]_vars

\* ------------------------------------------------------ extraction alone
ExtractTokens == {"FENCE", "json", " ", "{", "}", "a", "b"}

TextsOver(tokens, n) == UNION { [1..k -> tokens] : k \in 0..n }

\* Longer answers of the model: a tagged block with prose around it, a plain
\* block followed by a tagged one, an array, a number, the fallback text.
ExtractSamples ==
  { <<"a", "FENCE", "json", " ", "{", "a", "}", " ", "FENCE", "b">>,
    <<"FENCE", "{", "b", "}", "FENCE", " ", "FENCE", "json", "{", "a", "}", "FENCE">>,
    <<"FENCE", "json", " ", "{", "fb", "}", " ">>,
    <<" ", "[", "]", " ">>,
    <<"5", "5">>,
    get_fallback_response }

ExtractInputs == TextsOver(ExtractTokens, MaxExtractLen) \cup ExtractSamples

\* json.dumps: the text of a value json.loads returned.
Dumps(parsed) ==
  CASE parsed.kind = "object" ->
         <<"{", CHOOSE b \in DocBodies : DocOfBody(b) = parsed.val, "}">>
    [] parsed.kind = "array" -> <<"[", "]">>
    [] parsed.kind = "number" -> [i \in 1..parsed.val.digits |-> "5"]

\* One call of _parse_blueprint_response on a text.
InitExtract ==
  /\ heap = <<>>
  /\ design_storage = <<>>
  /\ gen_ref = Own
  /\ gen_own = <<>>
  /\ current_floor = 1
  /\ \E text \in ExtractInputs :
       response = Answer("pending", text, Ok(""), 0, NoBlueprint, 0, <<>>, <<>>)

\* The answer keeps the value returned (blueprint), the exception that left
\* the method (detail, none being "") and the text given to json.loads (body).
extract ==
  /\ response.op = "pending"
  /\ LET parsed == parse_blueprint_response(response.request)
     IN  response' =
           Answer("parse_blueprint_response", response.request,
                  HTTPException(0, IF parsed.kind = "JSONDecodeError"
                                     THEN "JSONDecodeError" ELSE ""),
                  0, parsed, 0, <<>>, json_str(response.request))
  /\ UNCHANGED <<heap, design_storage, gen_ref, gen_own, current_floor>>

NextExtract == extract

SpecExtract == InitExtract /\ [][NextExtract]_vars

\* ------------------------------------------------- the server's event loop
\* uvicorn.run(app) serves every request on one event loop.  The handlers are
\* async def and call requests.post, a blocking call, without awaiting
\* anything: from the moment a handler starts until it returns, the loop runs
\* nothing else.  A handler that calls the gateway is split here at
\* requests.post: begin_* runs it up to the call, answer is the external
\* service answering (or the connection failing), finish runs the rest.
\* requests.post is given no timeout, so nothing but answer ends the wait.
Waiting(op, request, session_id) ==
  Answer(op, request, HTTPException(0, "requests.post"), session_id,
         NoBlueprint, 0, <<>>, <<>>)

\* A handler has started and not returned.
Busy ==
  /\ response.op \in {"generate", "iterate", "optimize"}
  /\ response.status_code = 0

AtPost == Busy /\ response.detail = "requests.post"
Answered == Busy /\ response.detail = "answered"

begin_generate(requirements) ==
  /\ ~Busy
  /\ Len(heap) < MaxEntries
  /\ SessionIds \ DOMAIN design_storage # {}
  /\ IF /\ requirements.building_type \in BUILDING_TYPES
        /\ \A o \in ApiOutcomes :
             generate_initial_blueprint(GenList, heap, current_floor,
                                        requirements, o).gateway # <<>>
       THEN /\ response' = Waiting("generate", requirements, 0)
            /\ UNCHANGED <<heap, design_storage, gen_ref, gen_own, current_floor>>
       ELSE \E o \in ApiOutcomes : generate_blueprint(requirements, o)

begin_iterate(session_id, feedback) ==
  /\ ~Busy
  /\ Len(heap) < MaxEntries
  /\ IF /\ session_id \in DOMAIN design_storage
        /\ design_storage[session_id] # <<>>
       THEN /\ response' = Waiting("iterate", feedback, session_id)
            /\ UNCHANGED <<heap, design_storage, gen_ref, gen_own, current_floor>>
       ELSE \E o \in ApiOutcomes : iterate_blueprint(session_id, feedback, o)

begin_optimize(session_id, goals) ==
  /\ ~Busy
  /\ Len(heap) < MaxEntries
  /\ IF /\ session_id \in DOMAIN design_storage
        /\ design_storage[session_id] # <<>>
       THEN /\ response' = Waiting("optimize", goals, session_id)
            /\ UNCHANGED <<heap, design_storage, gen_ref, gen_own, current_floor>>
       ELSE \E o \in ApiOutcomes : optimize_blueprint(session_id, goals, o)

\* The external service answers the pending requests.post.
answer(o) ==
  /\ AtPost
  /\ response' = [response EXCEPT !.detail = "answered", !.body = <<o>>]
  /\ UNCHANGED <<heap, design_storage, gen_ref, gen_own, current_floor>>

\* The handler goes on from requests.post to its return.
finish ==
  /\ Answered
  /\ CASE response.op = "generate" ->
            generate_blueprint(response.request, response.body[1])
       [] response.op = "iterate" ->
            iterate_blueprint(response.session_id, response.request,
                              response.body[1])
       [] response.op = "optimize" ->
            optimize_blueprint(response.session_id, response.request,
                               response.body[1])

\* The handlers that call no gateway run from start to return in one step,
\* when the loop is free.
serve_update_floor(session_id, floor_number) ==
  ~Busy /\ update_floor_view_endpoint(session_id, floor_number)

serve_history(session_id) == ~Busy /\ get_design_history(session_id)

serve_current_floor(session_id) == ~Busy /\ get_current_floor(session_id)

NextServer ==
  \/ \E requirements \in RequirementsSet : begin_generate(requirements)
  \/ \E session_id \in SessionIds, feedback \in Feedbacks :
       begin_iterate(session_id, feedback)
  \/ \E session_id \in SessionIds, goals \in GoalLists :
       begin_optimize(session_id, goals)
  \/ \E o \in ApiOutcomes : answer(o)
  \/ finish
  \/ \E session_id \in SessionIds, floor_number \in FloorNumbers :
       serve_update_floor(session_id, floor_number)
  \/ \E session_id \in SessionIds : serve_history(session_id)
  \/ \E session_id \in SessionIds : serve_current_floor(session_id)

SpecServer == Init /\ [][NextServer]_vars

\* The steps the program takes by itself: every step but the external
\* service's answer.
ProgramStep ==
  \/ \E requirements \in RequirementsSet : begin_generate(requirements)
  \/ \E session_id \in SessionIds, feedback \in Feedbacks :
       begin_iterate(session_id, feedback)
  \/ \E session_id \in SessionIds, goals \in GoalLists :
       begin_optimize(session_id, goals)
  \/ finish
  \/ \E session_id \in SessionIds, floor_number \in FloorNumbers :
       serve_update_floor(session_id, floor_number)
  \/ \E session_id \in SessionIds : serve_history(session_id)
  \/ \E session_id \in SessionIds : serve_current_floor(session_id)

\* ================================================================ claims
Succeeded == response.status_code = 200
History(s) == Deref(heap, design_storage[s])
ValidRequirements(r) == r.building_type \in BUILDING_TYPES /\ r.floors >= 1
GatewayFailed(o) ==
  o.raised \/ o.status_code # 200 \/ ~o.has_candidates \/ ~o.well_formed

\* C1: in every reachable state the version numbers of every stored history,
\* read in order, are exactly 1, 2, ..., len(history).
C1_VersionsCountUp ==
  \A s \in DOMAIN design_storage :
    \A i \in 1..Len(design_storage[s]) : History(s)[i].version = i

\* C2: right after a successful POST /api/generate the history stored under
\* the new session identifier is exactly one DesignVersion: version 1,
\* feedback "Initial generation", changes ["Initial creation"], floor 1.
C2_CreateStoresOneVersion ==
  (response.op = "generate" /\ Succeeded) =>
    /\ Len(design_storage[response.session_id]) = 1
    /\ History(response.session_id)[1].version = 1
    /\ History(response.session_id)[1].feedback = <<"Initial generation">>
    /\ History(response.session_id)[1].changes_made = <<"Initial creation">>
    /\ History(response.session_id)[1].current_floor = 1

\* C3: a request served for one session leaves the history stored under every
\* other session identifier unchanged, in every field of every entry.
C3_OtherSessionsUntouched ==
  [][ \A t \in DOMAIN design_storage :
        t # response'.session_id =>
          Deref(heap', design_storage'[t]) = Deref(heap, design_storage[t]) ]_vars

\* C4: a successful update-floor request on a session appends nothing and
\* keeps every entry's version, blueprint, feedback and changes; it sets the
\* current_floor of the latest entry and of the generator to the requested
\* floor, keeps the current_floor of the earlier entries, and returns the
\* latest entry's blueprint as it was.
C4_SetFloorOnlyMovesTheView ==
  [][ (response'.op = "update_floor" /\ response'.status_code = 200) =>
        LET s == response'.session_id
            old == Deref(heap, design_storage[s])
            new == Deref(heap', design_storage'[s])
        IN  /\ old # <<>>
            /\ Len(new) = Len(old)
            /\ \A i \in 1..Len(old) :
                 /\ new[i].version = old[i].version
                 /\ new[i].blueprint = old[i].blueprint
                 /\ new[i].feedback = old[i].feedback
                 /\ new[i].changes_made = old[i].changes_made
                 /\ i < Len(old) => new[i].current_floor = old[i].current_floor
            /\ Last(new).current_floor = response'.request
            /\ current_floor' = response'.request
            /\ response'.blueprint = Last(old).blueprint ]_vars

C4_Witness ==
  /\ response.op = "update_floor" /\ Succeeded
  /\ Len(design_storage[response.session_id]) >= 2
  /\ History(response.session_id)[1].current_floor # response.request
  /\ Last(History(response.session_id)).current_floor = response.request
  /\ History(response.session_id)[1].blueprint
       # Last(History(response.session_id)).blueprint

\* C5: after a successful update-floor request for floor k the floor reported
\* for the session is k, and the same request made again returns the same
\* blueprint and leaves the reported floor at k.
C5_SetFloorTwice ==
  (response.op = "update_floor" /\ Succeeded) =>
    LET s == response.session_id
        k == response.request
        again == update_floor_view(design_storage[s], heap, current_floor, k)
    IN  /\ ReportedFloor(heap, design_storage[s]) = k
        /\ again.raised = ""
        /\ again.blueprint = response.blueprint
        /\ ReportedFloor(again.heap, again.hist) = k

C5_Witness ==
  /\ response.op = "update_floor" /\ Succeeded
  /\ response.request = 2
  /\ Len(design_storage[response.session_id]) >= 2
  /\ ReportedFloor(heap, design_storage[response.session_id]) = 2

\* C6: a generate request with a known building type (and a positive floor
\* count) succeeds whatever the external call does, and appends version 1.
C6_CreateAlwaysSucceeds ==
  (response.op = "generate" /\ ValidRequirements(response.request)) =>
    /\ Succeeded
    /\ response.blueprint # NoBlueprint
    /\ Last(History(response.session_id)).version = 1

\* C7: a generate request with an unknown building type is answered with a
\* 4xx status, and a request naming a session identifier that is not stored
\* is answered 404; both make no gateway call.
C7_ValidationIsAClientError ==
  /\ (response.op = "generate"
        /\ response.request.building_type \notin BUILDING_TYPES) =>
       (response.status_code \in 400..499 /\ response.gateway = <<>>)
  /\ (response.op \in {"iterate", "optimize", "update_floor", "history",
                       "current_floor"}
        /\ response.session_id \notin DOMAIN design_storage) =>
       (response.status_code = 404 /\ response.gateway = <<>>)

\* C8: iterate_design, optimize_design and update_floor_view called on a
\* generator whose design_history is empty raise their "No existing design"
\* error, call the gateway not at all, and leave design_history empty and
\* current_floor as it was.
C8_EmptyHistoryIsRejected ==
  [][ (gen_own = <<>>
         /\ response'.op \in {"iterate_design", "optimize_design",
                              "update_floor_view"}) =>
        /\ response'.detail =
             ( CASE response'.op = "iterate_design" ->
                      "No existing design to iterate on"
                 [] response'.op = "optimize_design" ->
                      "No existing design to optimize"
                 [] response'.op = "update_floor_view" ->
                      "No existing design to view" )
        /\ response'.gateway = <<>>
        /\ gen_own' = <<>>
        /\ heap' = heap
        /\ current_floor' = current_floor ]_vars

C8_Witness ==
  /\ gen_own = <<>>
  /\ response.op = "update_floor_view"
  /\ response.request = 2
  /\ response.detail = "No existing design to view"
  /\ current_floor = 1

\* C9: _call_gemini_api returns the text of the fallback document, always the
\* same, whenever the request raised, the status is not 200, there is no
\* candidate or the envelope is malformed; it returns the model's text only
\* for a 200 answer with a candidate, and then that text.
C9_GatewayNeverFails ==
  (response.op = "call_gemini_api") =>
    LET c == response.gateway[1]
    IN  /\ GatewayFailed(c.outcome) => c.raw = get_fallback_response
        /\ ~GatewayFailed(c.outcome) => c.raw = c.outcome.text
        /\ c.raw # get_fallback_response =>
             ~c.outcome.raised /\ c.outcome.status_code = 200
               /\ c.outcome.has_candidates

C9_Witness ==
  /\ response.op = "call_gemini_api"
  /\ ~response.gateway[1].outcome.raised
  /\ response.gateway[1].outcome.status_code = 500
  /\ response.gateway[1].outcome.has_candidates
  /\ response.gateway[1].outcome.well_formed
  /\ response.gateway[1].outcome.text = <<"{", "a">>
  /\ response.gateway[1].raw = get_fallback_response

\* C10: a generate request with valid requirements whose gateway call failed
\* returns the fallback document exactly: floors 1 and 2 whatever floor count
\* was asked for, Living Room (Center) and Kitchen (East) on floor 1, Master
\* Bedroom (North) on floor 2; the entry stored has version 1 and holds the
\* same document.
C10_FailedGatewayGivesFallback ==
  ( /\ response.op = "generate"
    /\ ValidRequirements(response.request)
    /\ response.gateway # <<>>
    /\ GatewayFailed(response.gateway[1].outcome) ) =>
    LET b == response.blueprint
        f == b.floor_plans
    IN  /\ Succeeded
        /\ b = FallbackDoc
        /\ [i \in 1..Len(f) |-> f[i].floor_number] = <<1, 2>>
        /\ [i \in 1..Len(f[1].rooms) |->
              <<f[1].rooms[i].name, f[1].rooms[i].direction>>]
             = << <<"Living Room", "Center">>, <<"Kitchen", "East">> >>
        /\ [i \in 1..Len(f[2].rooms) |->
              <<f[2].rooms[i].name, f[2].rooms[i].direction>>]
             = << <<"Master Bedroom", "North">> >>
        /\ response.version = 1
        /\ Last(History(response.session_id)).version = 1
        /\ Last(History(response.session_id)).blueprint = FallbackDoc

C10_Witness ==
  /\ response.op = "generate" /\ Succeeded
  /\ response.request.floors = 3
  /\ response.gateway # <<>>
  /\ response.gateway[1].outcome.raised
  /\ response.blueprint = FallbackDoc

\* The rooms of a document, as (floor plan, room) index pairs.
RoomsOf(doc) ==
  IF "floor_plans" \notin DOMAIN doc THEN {}
  ELSE UNION { IF "rooms" \in DOMAIN doc.floor_plans[i]
                 THEN { <<i, j>> : j \in 1..Len(doc.floor_plans[i].rooms) }
                 ELSE {} : i \in 1..Len(doc.floor_plans) }

RoomAt(doc, ij) == doc.floor_plans[ij[1]].rooms[ij[2]]

Normalized == response.op = "validate_and_fix_blueprint"

\* C11: every room of every floor plan of a document returned by
\* _validate_and_fix_blueprint, whatever the rooms carried before, has a
\* direction among the nine of ROOM_DIRECTIONS, a features list (possibly
\* empty) and a color that is a non-empty hex string.
C11_NormalizedRoomsAreComplete ==
  Normalized =>
    \A ij \in RoomsOf(response.blueprint) :
      LET room == RoomAt(response.blueprint, ij)
      IN  /\ "direction" \in DOMAIN room /\ room.direction \in ROOM_DIRECTIONS
          /\ "features" \in DOMAIN room
          /\ "color" \in DOMAIN room /\ room.color \in HexColors

Abs(n) == IF n < 0 THEN -n ELSE n

\* The direction the claim gives the position (x, y).
DirectionOf(x, y) ==
  IF Abs(x) > 5 /\ Abs(y) > 5
    THEN CASE x < 0 /\ y > 0 -> "Northwest"
           [] x > 0 /\ y > 0 -> "Northeast"
           [] x < 0 /\ y < 0 -> "Southwest"
           [] x > 0 /\ y < 0 -> "Southeast"
  ELSE IF Abs(x) > 2 THEN (IF x < 0 THEN "West" ELSE "East")
  ELSE IF Abs(y) > 2 THEN (IF y > 0 THEN "North" ELSE "South")
  ELSE "Center"

\* C12: the direction computed for a room that came without one depends on
\* its position alone, a missing coordinate counting as 0: a diagonal by the
\* signs when |x| > 5 and |y| > 5, else West or East when |x| > 2, else North
\* or South when |y| > 2, else Center.
C12_DirectionFromPosition ==
  Normalized =>
    \A ij \in RoomsOf(response.request) :
      LET before == RoomAt(response.request, ij)
          pos == Get(before, "position", [x |-> 0, y |-> 0])
      IN  "direction" \notin DOMAIN before =>
            RoomAt(response.blueprint, ij).direction
              = DirectionOf(Get(pos, "x", 0), Get(pos, "y", 0))

C12_Witness ==
  /\ Normalized
  /\ response.request = RoomDoc([name |-> "Room", position |-> [x |-> -8, y |-> 3]])
  /\ RoomAt(response.blueprint, <<1, 1>>).direction = "West"

Extracted == response.op = "parse_blueprint_response"

\* The payload as the claims describe it: it starts right after the first
\* fence tagged json, else right after the first fence, else at the start of
\* the text; it ends at the next fence after the opening one, or at the end
\* of the text; it is trimmed.
ClaimedPayload(text) ==
  LET opening == IF Contains(text, FenceJson)
                   THEN Find(text, FenceJson, 0) + Len(FenceJson)
                 ELSE IF Contains(text, Fence)
                   THEN Find(text, Fence, 0) + Len(Fence)
                 ELSE 0
      closing == IF Contains(text, Fence) /\ Find(text, Fence, opening) # -1
                   THEN Find(text, Fence, opening)
                   ELSE Len(text)
  IN  Strip(SubSeq(text, opening + 1, closing))

\* C13: _parse_blueprint_response never leaves by a parse error, and for a
\* text whose payload is not JSON it returns the parsed fallback document and
\* nothing read from a part of the payload.
C13_MalformedGivesFallback ==
  Extracted =>
    /\ response.detail = ""
    /\ JsonLoads(ClaimedPayload(response.request)).kind = "JSONDecodeError" =>
         response.blueprint = [kind |-> "object", val |-> FallbackDoc]

\* C14: for a text that is JSON as it stands, with no fence around it,
\* _parse_blueprint_response returns the value the text encodes, and given
\* json.dumps of that value it returns the same value again.
C14_ExtractIsIdempotent ==
  (Extracted /\ JsonLoads(response.request).kind # "JSONDecodeError") =>
    /\ response.blueprint = JsonLoads(response.request)
    /\ parse_blueprint_response(Dumps(response.blueprint)) = response.blueprint

\* C15: the text given to json.loads is the payload the claim describes:
\* from the opening fence (or the start) to the next fence, or to the end of
\* the text with no character lost, trimmed.
C15_PayloadSelection ==
  Extracted => response.body = ClaimedPayload(response.request)

Appended ==
  response'.op \in {"iterate", "optimize"} /\ response'.status_code = 200

\* C16: a successful iterate or optimize request on a session appends exactly
\* one entry to the history stored for it and leaves the entries that were
\* there as they were; the new entry's version is the version of the entry
\* that was latest plus 1, its changes are ["User feedback integration"] or
\* ["Design optimization"], and the prompt sent held the blueprint of the
\* entry that was latest.
C16_AppendExtendsTheHistory ==
  [][ Appended =>
        LET s == response'.session_id
            old == Deref(heap, design_storage[s])
            new == Deref(heap', design_storage'[s])
        IN  /\ old # <<>>
            /\ Len(new) = Len(old) + 1
            /\ SubSeq(new, 1, Len(old)) = old
            /\ Last(new).version = Last(old).version + 1
            /\ Last(new).changes_made =
                 ( IF response'.op = "iterate"
                     THEN <<"User feedback integration">>
                     ELSE <<"Design optimization">> )
            /\ Len(response'.gateway) = 1
            /\ response'.gateway[1].prompt.current_blueprint
                 = Last(old).blueprint ]_vars

\* C17: the entry appended by a successful iterate or optimize request has
\* the current floor that was reported for the session just before the
\* request, whatever was asked of other sessions since that floor was set.
C17_AppendKeepsTheFloor ==
  [][ Appended =>
        LET s == response'.session_id
        IN  Last(Deref(heap', design_storage'[s])).current_floor
              = ReportedFloor(heap, design_storage[s]) ]_vars

\* C18: a generate, iterate or optimize request that waits in the call of the
\* external service completes also when the service never answers: the wait
\* is bounded by a timeout, so that in every state where a handler waits in
\* requests.post the program has a step of its own to take.
C18_EveryRequestCompletes == AtPost => ENABLED ProgramStep

\* C19: requests are served one at a time, so of two appending requests sent
\* together each reads the history the other left.  What is left to hold:
\* a successful generate stores one entry, every successful iterate or
\* optimize adds exactly one entry to its session's history, and nothing else
\* changes the length of a stored history, so that n appends after create
\* leave n + 1 entries.
C19_NoLostUpdates ==
  [][ /\ (response'.op = "generate" /\ response'.status_code = 200) =>
           Len(design_storage'[response'.session_id]) = 1
      /\ \A s \in DOMAIN design_storage :
           Len(design_storage'[s]) =
             Len(design_storage[s])
               + (IF Appended /\ response'.session_id = s THEN 1 ELSE 0) ]_vars

\* C20: while a generate, iterate or optimize handler waits for the external
\* service, a read of the history or of the current floor of another session
\* can be served.
C20_OtherSessionsAreServed ==
  \A t \in DOMAIN design_storage :
    (AtPost /\ response.session_id # t) =>
      /\ ENABLED serve_history(t)
      /\ ENABLED serve_current_floor(t)

\* C21: a generate, iterate or optimize request makes at most one call of the
\* external service, and exactly one when it passed validation; when that one
\* call failed the fallback text is what the method went on with.  The
\* update-floor request and the two reads make none.
C21_OneCallNoRetry ==
  /\ response.op \in {"generate", "iterate", "optimize"} =>
       /\ Len(response.gateway) <= 1
       /\ Succeeded => Len(response.gateway) = 1
       /\ (response.op = "generate" /\ ValidRequirements(response.request)) =>
            Len(response.gateway) = 1
       /\ (response.op \in {"iterate", "optimize"}
             /\ response.detail # "Session not found") =>
            Len(response.gateway) = 1
       /\ \A i \in 1..Len(response.gateway) :
            GatewayFailed(response.gateway[i].outcome) =>
              response.gateway[i].raw = get_fallback_response
  /\ response.op \in {"update_floor", "history", "current_floor"} =>
       response.gateway = <<>>

C21_Witness ==
  /\ response.op = "iterate" /\ Succeeded
  /\ Len(response.gateway) = 1
  /\ response.gateway[1].outcome.raised
  /\ response.blueprint = FallbackDoc

\* C22: _validate_and_fix_blueprint adds a direction, features or color key
\* only where the room has none and keeps every value that is there; it
\* changes no other key of a room, of a floor plan or of the document, adds
\* and removes no room and no floor plan, and applied to its own result it
\* returns that result.
C22_NormalizeOnlyFillsGaps ==
  Normalized =>
    LET b == response.request
        n == response.blueprint
    IN  /\ DOMAIN n = DOMAIN b
        /\ \A k \in DOMAIN b \ {"floor_plans"} : n[k] = b[k]
        /\ "floor_plans" \in DOMAIN b =>
             /\ Len(n.floor_plans) = Len(b.floor_plans)
             /\ \A i \in 1..Len(b.floor_plans) :
                  LET bf == b.floor_plans[i]
                      nf == n.floor_plans[i]
                  IN  /\ DOMAIN nf = DOMAIN bf
                      /\ \A k \in DOMAIN bf \ {"rooms"} : nf[k] = bf[k]
                      /\ "rooms" \in DOMAIN bf => Len(nf.rooms) = Len(bf.rooms)
        /\ RoomsOf(n) = RoomsOf(b)
        /\ \A ij \in RoomsOf(b) :
             /\ DOMAIN RoomAt(n, ij)
                  = DOMAIN RoomAt(b, ij) \cup {"direction", "features", "color"}
             /\ \A k \in DOMAIN RoomAt(b, ij) : RoomAt(n, ij)[k] = RoomAt(b, ij)[k]
        /\ validate_and_fix_blueprint(n) = n

C22_Witness ==
  /\ Normalized
  /\ response.request =
       RoomDoc([ name |-> "Room", position |-> [x |-> 6, y |-> 6],
                 direction |-> "Upstairs", features |-> <<"sink">> ])
  /\ RoomAt(response.blueprint, <<1, 1>>) =
       [ name |-> "Room", position |-> [x |-> 6, y |-> 6],
         direction |-> "Upstairs", features |-> <<"sink">>,
         color |-> "#f5f5f5" ]

\* C23: in every reachable state every history stored under a session
\* identifier is non-empty, and no iterate, optimize or update-floor request
\* is answered with a "No existing design" error.
C23_StoredHistoriesAreNonEmpty ==
  /\ \A s \in DOMAIN design_storage : design_storage[s] # <<>>
  /\ response.op \in {"iterate", "optimize", "update_floor"} =>
       response.detail \notin { "No existing design to iterate on",
                                "No existing design to optimize",
                                "No existing design to view" }

C23_Witness ==
  /\ DOMAIN design_storage = SessionIds
  /\ response.op = "optimize" /\ Succeeded
  /\ Len(design_storage[response.session_id]) >= 2

\* C24: the version in the response of every successful generate, iterate,
\* optimize and update-floor request is the version field of the latest
\* entry of the history stored for the session when the response is made.
C24_ReportedVersionIsLatest ==
  (response.op \in {"generate", "iterate", "optimize", "update_floor"}
     /\ Succeeded) =>
    response.version = Last(History(response.session_id)).version
====
